---- MODULE Spec2Model ----
(***************************************************************************)
(* Model of packages/vite-plugin-svelte/src/utils/error.js:                *)
(* toRollupError, toESBuildError, lineFromFrame, formatFrameForVite,       *)
(* enhanceCompileError and arraify.                                        *)
(*                                                                         *)
(* Text that the code inspects character by character (frames, the         *)
(* original source, messages) is a sequence of one-character strings.      *)
(* Text that is only copied or compared as a whole (name, code, filename,  *)
(* stack) is a TLA+ string.  An optional value is <<>> when undefined and  *)
(* <<v>> when it holds v.                                                  *)
(***************************************************************************)
EXTENDS Integers, Sequences, FiniteSets, TLC

VARIABLES err, options, originalCode, preprocessors, returned, messages

vars == <<err, options, originalCode, preprocessors, returned, messages>>

(***************************************************************************)
(* Bounds of the model.                                                    *)
(***************************************************************************)
\* most lines a frame is built of
MaxFrameLines == 2
\* most chunks the original source is built of
MaxRegions == 2
\* most calls of enhanceCompileError on the one diagnostic
MaxEnhanceCalls == 2

(***************************************************************************)
(* JavaScript values.                                                      *)
(***************************************************************************)
Undefined == <<>>

Some(v) == <<v>>

IsDefined(o) == o # <<>>

ValueOf(o) == o[1]

\* !s for an optional string: undefined and '' are both falsy
Falsy(o) == o = Undefined \/ ValueOf(o) = <<>>

Min(S) == CHOOSE x \in S : \A y \in S : x <= y

\* the characters \s and trimStart() treat as white space
Whitespace == {" ", "\t", "\n", "\r"}

(***************************************************************************)
(* String.prototype operations, indices 0-based as in JavaScript.          *)
(***************************************************************************)
\* s.startsWith(pat, i)
OccursAt(s, pat, i) ==
    /\ i >= 0
    /\ i + Len(pat) <= Len(s)
    /\ SubSeq(s, i + 1, i + Len(pat)) = pat

\* s.indexOf(pat, from): the first index >= from where pat occurs, else -1
RECURSIVE IndexOfFrom(_, _, _)
IndexOfFrom(s, pat, from) ==
    IF from + Len(pat) > Len(s) THEN -1
    ELSE IF OccursAt(s, pat, from) THEN from
    ELSE IndexOfFrom(s, pat, from + 1)

IndexOf(s, pat) == IndexOfFrom(s, pat, 0)

Includes(s, pat) == IndexOf(s, pat) # -1

StartsWith(s, pat) == OccursAt(s, pat, 0)

\* s.substring(start): start is clamped to 0..s.length
Substring(s, start) ==
    LET b == IF start < 0 THEN 0 ELSE IF start > Len(s) THEN Len(s) ELSE start
    IN  SubSeq(s, b + 1, Len(s))

\* s.trimStart()
TrimStart(s) ==
    LET kept == {i \in 1..Len(s) : s[i] \notin Whitespace}
    IN  IF kept = {} THEN <<>> ELSE SubSeq(s, Min(kept), Len(s))

\* s.replace(pat, rep) with a string pattern: only the first occurrence
ReplaceFirst(s, pat, rep) ==
    LET i == IndexOf(s, pat)
    IN  IF i = -1 THEN s
        ELSE SubSeq(s, 1, i) \o rep \o SubSeq(s, i + Len(pat) + 1, Len(s))

\* s.split(sep) for a one-character separator
RECURSIVE Split(_, _)
Split(s, sep) ==
    LET i == IndexOf(s, <<sep>>)
    IN  IF i = -1 THEN <<s>>
        ELSE <<SubSeq(s, 1, i)>> \o Split(SubSeq(s, i + 2, Len(s)), sep)

\* parts.join(sep)
RECURSIVE Join(_, _)
Join(parts, sep) ==
    IF parts = <<>> THEN <<>>
    ELSE IF Len(parts) = 1 THEN parts[1]
    ELSE parts[1] \o sep \o Join(Tail(parts), sep)

Digit(d) == CASE d = 0 -> "0" [] d = 1 -> "1" [] d = 2 -> "2" [] d = 3 -> "3"
              [] d = 4 -> "4" [] d = 5 -> "5" [] d = 6 -> "6" [] d = 7 -> "7"
              [] d = 8 -> "8" [] d = 9 -> "9"

\* `${n}` for a non-negative integer
RECURSIVE NumToString(_)
NumToString(n) ==
    IF n < 10 THEN <<Digit(n)>>
    ELSE NumToString(n \div 10) \o <<Digit(n % 10)>>

(***************************************************************************)
(* lineFromFrame and formatFrameForVite.                                   *)
(***************************************************************************)
lineFromFrame(lineNo, frame) ==
    IF Falsy(frame) THEN <<>>
    ELSE
        LET lines == Split(ValueOf(frame), "\n")
            prefix == NumToString(lineNo) \o <<":", " ">>
            hits == {i \in 1..Len(lines) : StartsWith(TrimStart(lines[i]), prefix)}
        IN  IF hits = {} THEN <<>>
            ELSE LET errorLine == lines[Min(hits)]
                 IN  IF errorLine = <<>> THEN <<>>
                     ELSE Substring(errorLine, IndexOf(errorLine, <<":", " ">>) + 3)

\* line.match(/^\s+\^/)
IsCaretLine(line) ==
    \E k \in 1..Len(line) :
        /\ k + 1 <= Len(line)
        /\ \A j \in 1..k : line[j] \in Whitespace
        /\ line[k + 1] = "^"

\* fault: the caret line is moved by two columns, the text by three
formatLineForVite_TwoSpaces(line) ==
    IF IsCaretLine(line) THEN <<" ", " ">> \o line
    ELSE <<" ">> \o ReplaceFirst(line, <<":">>, <<" ", "|", " ">>)

formatLineForVite(line) ==
    IF IsCaretLine(line) THEN <<" ", " ", " ">> \o line
    ELSE <<" ">> \o ReplaceFirst(line, <<":">>, <<" ", "|", " ">>)

formatFrameForVite(frame) ==
    IF Falsy(frame) THEN <<>>
    ELSE
        LET lines == Split(ValueOf(frame), "\n")
        IN  Join([i \in 1..Len(lines) |-> formatLineForVite(lines[i])], <<"\n">>)

(***************************************************************************)
(* toRollupError and toESBuildError.                                       *)
(***************************************************************************)
\* imported from ./log.js, which is not part of the sources at hand
buildExtendedLogMessage(error) == error.message

\* fault: the frame is not looked at
IncludeStack_FlagsOnly(error, opts) == opts.isBuild \/ opts.isDebug

\* options.isBuild || options.isDebug || !frame
IncludeStack(error, opts) == opts.isBuild \/ opts.isDebug \/ Falsy(error.frame)

toRollupError(error, opts) ==
    LET rollupError ==
            [name |-> error.name,
             id |-> error.filename,
             message |-> buildExtendedLogMessage(error),
             frame |-> formatFrameForVite(error.frame),
             code |-> error.code,
             stack |-> IF IncludeStack(error, opts) THEN error.stack ELSE Some("")]
    IN  IF IsDefined(error.start)
        THEN rollupError @@
             ("loc" :> [line |-> ValueOf(error.start).line,
                        column |-> ValueOf(error.start).column,
                        file |-> error.filename])
        ELSE rollupError

\* fault: location is always set, to nothing when there is no start
toESBuildError_NullLocation(error, opts) ==
    LET partialMessage == [text |-> buildExtendedLogMessage(error)]
        withLocation ==
            partialMessage @@
            ("location" :>
                (IF IsDefined(error.start)
                 THEN Some([line |-> ValueOf(error.start).line,
                            column |-> ValueOf(error.start).column,
                            file |-> error.filename,
                            lineText |-> lineFromFrame(ValueOf(error.start).line,
                                                       error.frame)])
                 ELSE Undefined))
    IN  IF IncludeStack(error, opts)
        THEN withLocation @@ ("detail" :> error.stack)
        ELSE withLocation

toESBuildError(error, opts) ==
    LET partialMessage == [text |-> buildExtendedLogMessage(error)]
        withLocation ==
            IF IsDefined(error.start)
            THEN partialMessage @@
                 ("location" :> [line |-> ValueOf(error.start).line,
                                 column |-> ValueOf(error.start).column,
                                 file |-> error.filename,
                                 lineText |-> lineFromFrame(ValueOf(error.start).line,
                                                            error.frame)])
            ELSE partialMessage
    IN  IF IncludeStack(error, opts)
        THEN withLocation @@ ("detail" :> error.stack)
        ELSE withLocation

(***************************************************************************)
(* The tag scanners of enhanceCompileError:                                *)
(*   /<script(\s[^]*?)?(?:>([^]*?)<\/script>|\/>)/gi and the same for      *)
(* style.  The i flag makes the literal parts match in either case.        *)
(***************************************************************************)
UpperLetters == <<"A","B","C","D","E","F","G","H","I","J","K","L","M",
                  "N","O","P","Q","R","S","T","U","V","W","X","Y","Z">>

LowerLetters == <<"a","b","c","d","e","f","g","h","i","j","k","l","m",
                  "n","o","p","q","r","s","t","u","v","w","x","y","z">>

ToLower(c) ==
    IF \E k \in 1..Len(UpperLetters) : UpperLetters[k] = c
    THEN LowerLetters[CHOOSE k \in 1..Len(UpperLetters) : UpperLetters[k] = c]
    ELSE c

LowerCase(s) == [k \in 1..Len(s) |-> ToLower(s[k])]

ScriptOpen == <<"<","s","c","r","i","p","t">>

ScriptClose == <<"<","/","s","c","r","i","p","t",">">>

StyleOpen == <<"<","s","t","y","l","e">>

StyleClose == <<"<","/","s","t","y","l","e",">">>

\* (?:>([^]*?)<\/tag>|\/>) tried at index p: the index just past the match,
\* or -1 when neither alternative matches there.  The body is lazy, so the
\* first closing tag ends it.
TagTailEnd(s, low, close, p) ==
    IF OccursAt(s, <<">">>, p) /\ IndexOfFrom(low, close, p + 1) # -1
    THEN IndexOfFrom(low, close, p + 1) + Len(close)
    ELSE IF OccursAt(s, <<"/", ">">>, p) THEN p + 2 ELSE -1

\* the first index p' >= p where the alternation matches, or -1
RECURSIVE FirstTail(_, _, _, _)
FirstTail(s, low, close, p) ==
    IF p >= Len(s) THEN -1
    ELSE IF TagTailEnd(s, low, close, p) # -1 THEN p
    ELSE FirstTail(s, low, close, p + 1)

\* the match that starts at index i, if any: index is m.index, end is
\* m.index + m[0].length, attrs is m[1].  The group (\s[^]*?)? is tried
\* first, shortest first; only when it cannot lead to a match is it skipped.
TagMatchAt(s, low, open, close, i) ==
    IF ~OccursAt(low, open, i) THEN Undefined
    ELSE
        LET p0 == i + Len(open)
            tail == IF p0 < Len(s) /\ s[p0 + 1] \in Whitespace
                    THEN FirstTail(s, low, close, p0 + 1)
                    ELSE -1
        IN  IF tail # -1
            THEN Some([index |-> i,
                       end |-> TagTailEnd(s, low, close, tail),
                       attrs |-> Some(SubSeq(s, p0 + 1, tail))])
            ELSE IF TagTailEnd(s, low, close, p0) # -1
            THEN Some([index |-> i,
                       end |-> TagTailEnd(s, low, close, p0),
                       attrs |-> Undefined])
            ELSE Undefined

\* the successive results of re.exec(s) of a global regular expression:
\* the leftmost match at or after lastIndex, then on from its end
RECURSIVE TagMatches(_, _, _, _, _)
TagMatches(s, low, open, close, lastIndex) ==
    IF lastIndex >= Len(s) THEN <<>>
    ELSE LET found == TagMatchAt(s, low, open, close, lastIndex)
         IN  IF IsDefined(found)
             THEN <<ValueOf(found)>>
                  \o TagMatches(s, low, open, close, ValueOf(found).end)
             ELSE TagMatches(s, low, open, close, lastIndex + 1)

scriptRe(code) == TagMatches(code, LowerCase(code), ScriptOpen, ScriptClose, 0)

styleRe(code) == TagMatches(code, LowerCase(code), StyleOpen, StyleClose, 0)

\* attrs.match(/lang="(.+?)"/)?.[1]: the dot matches no line terminator
LangValue(attrs) ==
    LET quote == <<"l","a","n","g","=","\"">>
        valueEnds(i) == {j \in (i + Len(quote) + 1)..(Len(attrs) - 1) :
                            /\ attrs[j + 1] = "\""
                            /\ \A k \in (i + Len(quote))..(j - 1) :
                                   attrs[k + 1] \notin {"\n", "\r"}}
        starts == {i \in 0..Len(attrs) :
                       OccursAt(attrs, quote, i) /\ valueEnds(i) # {}}
    IN  IF starts = {} THEN Undefined
        ELSE Some(SubSeq(attrs, Min(starts) + Len(quote) + 1,
                         Min(valueEnds(Min(starts)))))

(***************************************************************************)
(* enhanceCompileError.                                                    *)
(***************************************************************************)
\* Array.isArray(value) ? value : [value]
arraify(value) == IF value.kind = "array" THEN value.items ELSE <<value.item>>

\* preprocessors ?? []
OrEmptyArray(value) ==
    IF value.kind = "undefined" THEN [kind |-> "array", items |-> <<>>] ELSE value

MissingLangTs == <<"D","i","d"," ","y","o","u"," ","f","o","r","g","e","t"," ","t","o"," ","a","d","d"," ","l","a","n","g","=","\"","t","s","\""," ","t","o"," ","y","o","u","r"," ","s","c","r","i","p","t"," ","t","a","g","?">>

MissingLang == <<"D","i","d"," ","y","o","u"," ","f","o","r","g","e","t"," ","t","o"," ","a","d","d"," ","a"," ","l","a","n","g"," ","a","t","t","r","i","b","u","t","e"," ","t","o"," ","y","o","u","r"," ","s","t","y","l","e"," ","t","a","g","?">>

MissingPreprocessor(preprocessorType) ==
    <<"D","i","d"," ","y","o","u"," ","f","o","r","g","e","t"," ","t","o"," ","a","d","d"," ","a"," ">>
    \o preprocessorType \o
    <<" ","p","r","e","p","r","o","c","e","s","s","o","r","?"," ","S","e","e"," ","h","t","t","p","s",":","/","/","g","i","t","h","u","b",".","c","o","m","/","s","v","e","l","t","e","j","s","/","v","i","t","e","-","p","l","u","g","i","n","-","s","v","e","l","t","e","/","b","l","o","b","/","m","a","i","n","/","d","o","c","s","/","p","r","e","p","r","o","c","e","s","s",".","m","d"," ","f","o","r"," ","m","o","r","e"," ","i","n","f","o","r","m","a","t","i","o","n",".">>

\* err.pos ?? -1
ErrIndex(error) == IF IsDefined(error.pos) THEN ValueOf(error.pos) ELSE -1

\* fault: the end of the match is not looked at
IsErrorInScript_StartOnly(m, errIndex) == m.index <= errIndex

\* matchStart <= errIndex && errIndex <= matchEnd
IsErrorInScript(m, errIndex) == m.index <= errIndex /\ errIndex <= m.end

\* m[1]?.includes('lang="ts"')
HasLangTs(m) == IsDefined(m.attrs) /\ Includes(ValueOf(m.attrs), <<"l","a","n","g","=","\"","t","s","\"">>)

\* m[1]?.includes('lang=')
HasLang(m) == IsDefined(m.attrs) /\ Includes(ValueOf(m.attrs), <<"l","a","n","g","=">>)

\* preprocessors.every((p) => p.script == null)
NoScriptPreprocessor(pre) == \A k \in 1..Len(pre) : ~IsDefined(pre[k].script)

\* fault: the bypass name is not looked at
NoStylePreprocessor_AnyStyleHook(pre) ==
    \A k \in 1..Len(pre) : ~IsDefined(pre[k].style)

\* preprocessors.every((p) => p.style == null || p.name === 'inject-scope-everything-rule')
NoStylePreprocessor(pre) ==
    \A k \in 1..Len(pre) :
        ~IsDefined(pre[k].style) \/ pre[k].name = "inject-scope-everything-rule"

\* m[1]?.match(/lang="(.+?)"/)?.[1] ?? 'style'
StylePreprocessorType(m) ==
    IF IsDefined(m.attrs) /\ IsDefined(LangValue(ValueOf(m.attrs)))
    THEN ValueOf(LangValue(ValueOf(m.attrs)))
    ELSE <<"s","t","y","l","e">>

\* fault: the two hints are pushed in the other order
ScriptMessages_PreprocessorFirst(m, errIndex, pre) ==
    IF IsErrorInScript(m, errIndex)
    THEN (IF NoScriptPreprocessor(pre)
          THEN <<MissingPreprocessor(IF HasLangTs(m)
                                     THEN <<"T","y","p","e","S","c","r","i","p","t">>
                                     ELSE <<"s","c","r","i","p","t">>)>>
          ELSE <<>>)
         \o (IF ~HasLangTs(m) THEN <<MissingLangTs>> ELSE <<>>)
    ELSE <<>>

\* what one iteration of the script loop pushes
ScriptMessages(m, errIndex, pre) ==
    IF IsErrorInScript(m, errIndex)
    THEN (IF ~HasLangTs(m) THEN <<MissingLangTs>> ELSE <<>>)
         \o (IF NoScriptPreprocessor(pre)
             THEN <<MissingPreprocessor(IF HasLangTs(m)
                                        THEN <<"T","y","p","e","S","c","r","i","p","t">>
                                        ELSE <<"s","c","r","i","p","t">>)>>
             ELSE <<>>)
    ELSE <<>>

\* what one iteration of the style loop pushes
StyleMessages(m, pre) ==
    (IF ~HasLang(m) THEN <<MissingLang>> ELSE <<>>)
    \o (IF NoStylePreprocessor(pre)
        THEN <<MissingPreprocessor(StylePreprocessorType(m))>>
        ELSE <<>>)

RECURSIVE Flatten(_)
Flatten(lists) ==
    IF lists = <<>> THEN <<>> ELSE Head(lists) \o Flatten(Tail(lists))

additionalMessages(error, code, pre) ==
    LET sm == scriptRe(code)
        tm == styleRe(code)
    IN  (IF error.code = Some("parse-error")
         THEN Flatten([k \in 1..Len(sm) |-> ScriptMessages(sm[k], ErrIndex(error), pre)])
         ELSE <<>>)
        \o (IF error.code = Some("css-syntax-error")
            THEN Flatten([k \in 1..Len(tm) |-> StyleMessages(tm[k], pre)])
            ELSE <<>>)

\* fault: hints the message already ends with are not appended again
AppendMessages_Once(message, added) ==
    LET suffix == <<"\n","\n","-"," ">> \o Join(added, <<"\n","-"," ">>)
    IN  IF Len(added) # 0
           /\ ~(Len(suffix) <= Len(message)
                /\ SubSeq(message, Len(message) - Len(suffix) + 1, Len(message)) = suffix)
        THEN message \o suffix
        ELSE message

\* fault: = in place of +=
AppendMessages_Replace(message, added) ==
    IF Len(added) # 0
    THEN <<"\n","\n","-"," ">> \o Join(added, <<"\n","-"," ">>)
    ELSE message

\* err.message += '\n\n- ' + additionalMessages.join('\n- ')
AppendMessages(message, added) ==
    IF Len(added) # 0
    THEN message \o <<"\n","\n","-"," ">> \o Join(added, <<"\n","-"," ">>)
    ELSE message

\* the diagnostic as the call leaves it
enhanceCompileError(error, code, preArg) ==
    [error EXCEPT !.message =
        AppendMessages(error.message,
                       additionalMessages(error, code, arraify(OrEmptyArray(preArg))))]

\* return err: the very object that was passed in
EnhanceReturn(error) == [op |-> "enhanceCompileError", ref |-> "err", value |-> Undefined]

(***************************************************************************)
(* The inputs the model draws from.                                        *)
(***************************************************************************)
RECURSIVE Spaces(_)
Spaces(k) == IF k = 0 THEN <<>> ELSE <<" ">> \o Spaces(k - 1)

\* a frame line as the compiler writes it: "<pad><lineNo>: <text>"
NumberedLine(pad, lineNo, text) ==
    Spaces(pad) \o NumToString(lineNo) \o <<":", " ">> \o text

\* the line numbers frames and start positions use
FrameLineNumbers == {1, 2, 12}

FrameTexts == {<<"a","b">>, <<"a",":"," ","b">>}

NumberedLines ==
    {NumberedLine(0, 2, text) : text \in FrameTexts}
    \cup {NumberedLine(0, 1, <<"a","b">>), NumberedLine(0, 12, <<"a","b">>), NumberedLine(1, 1, <<"a","b">>)}

\* lines made of blanks and a caret; with no blank it is no caret-marker line
CaretLines == {Spaces(k) \o <<"^">> : k \in {0, 3, 4}}

FrameLines == NumberedLines \cup CaretLines

LineSeqs(S, n) == UNION {[1..k -> S] : k \in 1..n}

Frames ==
    {Undefined, Some(<<>>)}
    \cup {Some(Join(ls, <<"\n">>)) : ls \in LineSeqs(FrameLines, MaxFrameLines)}

Starts == {Undefined} \cup {Some([line |-> n, column |-> 0]) : n \in FrameLineNumbers}

OptionValues == [isBuild : BOOLEAN, isDebug : BOOLEAN]

Stacks == {Undefined, Some("Error: boom\n    at compile")}

\* the pieces the original source is put together from
Chunks ==
    {<<"<","s","c","r","i","p","t",">","x","<","/","s","c","r","i","p","t",">">>,
     <<"<","s","c","r","i","p","t"," ","l","a","n","g","=","\"","t","s","\"",">","x","<","/","s","c","r","i","p","t",">">>,
     <<"p","<","S","T","Y","L","E","/",">">>,
     <<"<","s","t","y","l","e"," ","l","a","n","g","=","\"","s","c","s","s","\"",">","y","<","/","s","t","y","l","e",">">>}

ChunkSeqs == LineSeqs(Chunks, MaxRegions)

\* the offsets next to the start or the end of a chunk, and no offset at all
Positions(chunks) ==
    LET edge(k) == Len(Flatten(SubSeq(chunks, 1, k)))
        total == edge(Len(chunks))
    IN  {Undefined}
        \cup {Some(p) : p \in {q \in 0..(total + 1) :
                                 \E k \in 0..Len(chunks) :
                                     q \in (edge(k) - 1)..(edge(k) + 1)}}

\* err.pos is read under 'parse-error' alone; the other codes get no offset,
\* the first offset of the source, and the offset past its end
OffsetsOf(code, chunks) ==
    IF code = Some("parse-error") THEN Positions(chunks)
    ELSE {Undefined, Some(0), Some(Len(Flatten(chunks)) + 1)}

Codes == {Undefined, Some("parse-error"), Some("css-syntax-error"), Some("unexpected-eof")}

Descriptor(name, script, style) == [name |-> name, script |-> script, style |-> style]

\* the preprocess option: absent, one descriptor, or a list of them
PreprocessorArgs ==
    {[kind |-> "undefined"],
     [kind |-> "array", items |-> <<>>],
     [kind |-> "object", item |-> Descriptor("typescript", Some("fn"), Undefined)],
     [kind |-> "array",
      items |-> <<Descriptor("inject-scope-everything-rule", Undefined, Some("fn"))>>],
     [kind |-> "array",
      items |-> <<Descriptor("inject-scope-everything-rule", Undefined, Some("fn")),
                  Descriptor("scss", Undefined, Some("fn"))>>]}

Diagnostic(code, frame, start, pos, stack) ==
    [message |-> <<"U","n","e","x","p","e","c","t","e","d"," ","t","o","k","e","n">>,
     name |-> "ParseError",
     code |-> code,
     filename |-> Some("src/App.svelte"),
     frame |-> frame,
     start |-> start,
     pos |-> pos,
     stack |-> stack]

NothingReturned == [op |-> "none", ref |-> "none", value |-> Undefined]

(***************************************************************************)
(* The state machine: one diagnostic object err, and the calls on it.      *)
(* messages is the history of err.message: first as constructed, then      *)
(* after each call of enhanceCompileError.                                 *)
(***************************************************************************)
\* every frame, start, options and stack; one source
Init ==
    /\ \E frame \in Frames, start \in Starts, stack \in Stacks :
           err = Diagnostic(Some("parse-error"), frame, start, Some(3), stack)
    /\ options \in OptionValues
    /\ originalCode = <<"<","s","c","r","i","p","t",">","x","<","/","s","c","r","i","p","t",">">>
    /\ preprocessors = [kind |-> "undefined"]
    /\ returned = NothingReturned
    /\ messages = <<err.message>>

\* every source, offset, code and preprocess option; one frame
InitEnhance ==
    /\ \E chunks \in ChunkSeqs :
           /\ originalCode = Flatten(chunks)
           /\ \E code \in Codes :
              \E pos \in OffsetsOf(code, chunks) :
                  err = Diagnostic(code, Some(<<"1",":"," ","a","b","\n"," "," "," ","^">>),
                                   Some([line |-> 1, column |-> 0]), pos,
                                   Some("Error: boom\n    at compile"))
    /\ options = [isBuild |-> FALSE, isDebug |-> FALSE]
    /\ preprocessors \in PreprocessorArgs
    /\ returned = NothingReturned
    /\ messages = <<err.message>>

ToRollupError ==
    /\ returned' = [op |-> "toRollupError", ref |-> "new",
                    value |-> toRollupError(err, options)]
    /\ UNCHANGED <<err, options, originalCode, preprocessors, messages>>

ToESBuildError ==
    /\ returned' = [op |-> "toESBuildError", ref |-> "new",
                    value |-> toESBuildError(err, options)]
    /\ UNCHANGED <<err, options, originalCode, preprocessors, messages>>

EnhanceCompileError ==
    /\ Len(messages) <= MaxEnhanceCalls
    /\ err' = enhanceCompileError(err, originalCode, preprocessors)
    /\ returned' = EnhanceReturn(err')
    /\ messages' = Append(messages, err'.message)
    /\ UNCHANGED <<options, originalCode, preprocessors>>

Next == ToRollupError \/ ToESBuildError \/ EnhanceCompileError

Spec == Init /\ [][Next]_vars

SpecEnhance == InitEnhance /\ [][Next]_vars

(***************************************************************************)
(* Properties of toRollupError and toESBuildError (checked under Spec).    *)
(***************************************************************************)
Rolled == returned.op = "toRollupError"

Built == returned.op = "toESBuildError"

NeitherFlag == ~options.isBuild /\ ~options.isDebug

\* C1 as stated: the stack is carried (into stack, into detail) exactly when
\* isBuild or isDebug is set or the diagnostic has no frame; otherwise stack
\* is '' and detail is omitted.
C1_StackWhenFrameAbsent ==
    LET carried == options.isBuild \/ options.isDebug \/ err.frame = Undefined
    IN  /\ Rolled => returned.value.stack = (IF carried THEN err.stack ELSE Some(""))
        /\ Built => /\ ("detail" \in DOMAIN returned.value) <=> carried
                    /\ carried => returned.value.detail = err.stack

\* C1 amended: the stack is carried exactly when isBuild or isDebug is set or
\* the frame is absent or the empty string; otherwise stack is '' and detail
\* is omitted; both shapes follow the same condition.
C1_StackWhenNoFrameText ==
    LET carried == \/ options.isBuild
                   \/ options.isDebug
                   \/ err.frame = Undefined
                   \/ err.frame = Some(<<>>)
    IN  /\ Rolled => returned.value.stack = (IF carried THEN err.stack ELSE Some(""))
        /\ Built => /\ ("detail" \in DOMAIN returned.value) <=> carried
                    /\ carried => returned.value.detail = err.stack

\* a frame with text and neither flag: the stack is suppressed
C1_Witness ==
    /\ Rolled
    /\ NeitherFlag
    /\ IsDefined(err.frame) /\ ValueOf(err.frame) # <<>>
    /\ IsDefined(err.stack)
    /\ returned.value.stack = Some("")

\* the text after the first ": " of the first line numbered n, '' without one
ExpectedLineText(n, frame) ==
    IF frame = Undefined THEN <<>>
    ELSE
        LET lines == Split(ValueOf(frame), "\n")
            numbered == {i \in 1..Len(lines) :
                             StartsWith(TrimStart(lines[i]),
                                        NumToString(n) \o <<":", " ">>)}
        IN  IF numbered = {} THEN <<>>
            ELSE LET line == lines[Min(numbered)]
                 IN  SubSeq(line, IndexOf(line, <<":", " ">>) + 3, Len(line))

\* C2: location.lineText is the full text that follows the first ": " of the
\* first frame line numbered start.line, and '' when the frame is absent or
\* has no such line.
C2_LineTextIsTextOfLine ==
    (Built /\ IsDefined(err.start)) =>
        returned.value.location.lineText
            = ExpectedLineText(ValueOf(err.start).line, err.frame)

IsNumberedLine(line) ==
    \E n \in FrameLineNumbers :
        StartsWith(TrimStart(line), NumToString(n) \o <<":", " ">>)

\* "N: text" rewritten to " N | text"
ExpectedViteLine(line) ==
    LET i == IndexOf(line, <<":", " ">>)
    IN  <<" ">> \o SubSeq(line, 1, i) \o <<" ", "|", " ">>
        \o SubSeq(line, i + 3, Len(line))

\* C3: for a frame of lines "N: text" without caret-marker lines, the frame
\* of the result is the same lines in the same order, each rewritten to
\* " N | text"; an absent frame gives ''.
C3_NumberedLinesRewritten ==
    Rolled =>
        IF err.frame = Undefined THEN returned.value.frame = <<>>
        ELSE
            LET lines == Split(ValueOf(err.frame), "\n")
            IN  (\A i \in 1..Len(lines) : IsNumberedLine(lines[i])) =>
                    returned.value.frame
                        = Join([i \in 1..Len(lines) |-> ExpectedViteLine(lines[i])],
                               <<"\n">>)

\* C6: without start the result has no loc (toRollupError) and no location
\* (toESBuildError) key at all; with start, loc is {line, column, file} and
\* location carries the same three and lineText.
C6_PositionOnlyWithStart ==
    /\ Rolled =>
           IF IsDefined(err.start)
           THEN /\ "loc" \in DOMAIN returned.value
                /\ returned.value.loc = [line |-> ValueOf(err.start).line,
                                         column |-> ValueOf(err.start).column,
                                         file |-> err.filename]
           ELSE "loc" \notin DOMAIN returned.value
    /\ Built =>
           IF IsDefined(err.start)
           THEN /\ "location" \in DOMAIN returned.value
                /\ DOMAIN returned.value.location = {"line", "column", "file", "lineText"}
                /\ returned.value.location.line = ValueOf(err.start).line
                /\ returned.value.location.column = ValueOf(err.start).column
                /\ returned.value.location.file = err.filename
           ELSE "location" \notin DOMAIN returned.value

\* a diagnostic without start was converted and the result has no location
C6_Witness ==
    /\ Built
    /\ err.start = Undefined
    /\ DOMAIN returned.value \subseteq {"text", "detail"}

\* the index of the caret of a caret-marker line
CaretColumn(line) == IndexOf(line, <<"^">>)

EnhancedOnce == Len(messages) >= 2

\* the preprocess option as the list of descriptors the call looks through
DescriptorList == arraify(OrEmptyArray(preprocessors))

\* what is appended for a list of hints
HintSuffix(hints) ==
    IF hints = <<>> THEN <<>>
    ELSE <<"\n","\n","-"," ">> \o Join(hints, <<"\n","-"," ">>)

IsPrefix(p, s) == Len(p) <= Len(s) /\ SubSeq(s, 1, Len(p)) = p

SaysLangTs(m) == IsDefined(m.attrs) /\ Includes(ValueOf(m.attrs), <<"l","a","n","g","=","\"","t","s","\"">>)

\* the hints C4 names for one script region
ExpectedScriptHints(m) ==
    (IF SaysLangTs(m) THEN <<>> ELSE <<MissingLangTs>>)
    \o (IF \E k \in 1..Len(DescriptorList) : IsDefined(DescriptorList[k].script)
        THEN <<>>
        ELSE <<MissingPreprocessor(IF SaysLangTs(m)
                                   THEN <<"T","y","p","e","S","c","r","i","p","t">>
                                   ELSE <<"s","c","r","i","p","t">>)>>)

\* the script regions whose span, both ends included, holds the offset
RegionsWithOffset ==
    LET sm == scriptRe(originalCode)
    IN  IF err.pos = Undefined THEN <<>>
        ELSE SelectSeq(sm, LAMBDA m : m.index <= ValueOf(err.pos)
                                      /\ ValueOf(err.pos) <= m.end)

\* C4: for code 'parse-error' the first call appends, for each script region
\* holding the error offset and in source order, the lang="ts" hint iff the
\* attributes lack lang="ts", then the preprocessor hint iff no descriptor
\* has a script hook ("TypeScript" with lang="ts", else "script"), as
\* "\n\n- " and the hints joined with "\n- ".
C4_ParseErrorHints ==
    (EnhancedOnce /\ err.code = Some("parse-error")) =>
        LET regions == RegionsWithOffset
        IN  messages[2]
                = messages[1]
                  \o HintSuffix(Flatten([k \in 1..Len(regions) |->
                                            ExpectedScriptHints(regions[k])]))

\* <script>x</script>, offset inside, an empty descriptor list: both hints
C4_Witness ==
    /\ EnhancedOnce
    /\ err.code = Some("parse-error")
    /\ originalCode = <<"<","s","c","r","i","p","t",">","x","<","/","s","c","r","i","p","t",">">>
    /\ err.pos = Some(1)
    /\ preprocessors = [kind |-> "array", items |-> <<>>]
    /\ messages[2] = messages[1] \o <<"\n","\n","-"," ">> \o MissingLangTs
                     \o <<"\n","-"," ">> \o MissingPreprocessor(<<"s","c","r","i","p","t">>)

\* the hints C5 names for one style region
ExpectedStyleHints(m) ==
    (IF IsDefined(m.attrs) /\ Includes(ValueOf(m.attrs), <<"l","a","n","g","=">>)
     THEN <<>>
     ELSE <<MissingLang>>)
    \o (IF \A k \in 1..Len(DescriptorList) :
               \/ DescriptorList[k].style = Undefined
               \/ DescriptorList[k].name = "inject-scope-everything-rule"
        THEN <<MissingPreprocessor(StylePreprocessorType(m))>>
        ELSE <<>>)

\* C5: for code 'css-syntax-error' the first call appends, for every style
\* region whatever the offset, the lang hint iff the attributes have no
\* lang=, and the preprocessor hint iff every descriptor has no style hook or
\* is named 'inject-scope-everything-rule'.
C5_StyleHints ==
    (EnhancedOnce /\ err.code = Some("css-syntax-error")) =>
        LET tm == styleRe(originalCode)
        IN  messages[2]
                = messages[1]
                  \o HintSuffix(Flatten([k \in 1..Len(tm) |-> ExpectedStyleHints(tm[k])]))

\* <style lang="scss"> and a list with a descriptor that handles style:
\* nothing appended
C5_Witness ==
    /\ EnhancedOnce
    /\ err.code = Some("css-syntax-error")
    /\ originalCode = <<"<","s","t","y","l","e"," ","l","a","n","g","=","\"","s","c","s","s","\"",">","y","<","/","s","t","y","l","e",">">>
    /\ preprocessors.kind = "array"
    /\ \E k \in 1..Len(preprocessors.items) :
           /\ preprocessors.items[k].style # Undefined
           /\ preprocessors.items[k].name = "scss"
    /\ messages[2] = messages[1]

\* what the first call appended
FirstSuffix == Substring(messages[2], Len(messages[1]))

\* C7: when the first call appends a non-empty suffix S to the message m,
\* every further call with the same source and preprocessors appends S
\* again: m + S + S after two calls.
C7_SecondCallAppendsAgain ==
    (EnhancedOnce /\ FirstSuffix # <<>>) =>
        \A k \in 2..Len(messages) :
            messages[k] = messages[k - 1] \o FirstSuffix

\* a diagnostic that was enhanced twice and got hints
C7_Witness ==
    /\ Len(messages) >= 3
    /\ FirstSuffix # <<>>
    /\ err.message = messages[1] \o FirstSuffix \o FirstSuffix

\* C8: a call of enhanceCompileError changes the diagnostic only by
\* appending to message, returns the object it was given, and leaves message
\* as it is when code is absent or is neither 'parse-error' nor
\* 'css-syntax-error'.
C8_OnlyAppendsToMessage ==
    [][Len(messages') > Len(messages) =>
           /\ IsPrefix(err.message, err'.message)
           /\ DOMAIN err' = DOMAIN err
           /\ \A f \in DOMAIN err \ {"message"} : err'[f] = err[f]
           /\ returned'.ref = "err"
           /\ err.code \notin {Some("parse-error"), Some("css-syntax-error")}
                  => err'.message = err.message]_vars

\* a diagnostic of another code, enhanced with a single descriptor
C8_Witness ==
    /\ EnhancedOnce
    /\ returned.op = "enhanceCompileError"
    /\ err.code = Some("unexpected-eof")
    /\ preprocessors.kind = "object"
    /\ err.message = messages[1]

CountOccurrences(s, pat) == Cardinality({i \in 0..Len(s) : OccursAt(s, pat, i)})

\* C10 as stated: a script region counts only when the offset lies between
\* the index of its "<" and the index of its final ">"; with no offset, or
\* with the offset outside all these spans, the message stays as it is.
C10_SpanEndsAtFinalBracket ==
    (/\ EnhancedOnce
     /\ err.code = Some("parse-error")
     /\ \/ err.pos = Undefined
        \/ \A k \in 1..Len(scriptRe(originalCode)) :
               LET m == scriptRe(originalCode)[k]
               IN  ~(m.index <= ValueOf(err.pos) /\ ValueOf(err.pos) <= m.end - 1))
        => messages[2] = messages[1]

\* C10 amended: a script region counts only when the offset lies between the
\* index of its "<" and the index just past its final ">", both included;
\* at most two hints are appended per such region, and with no offset or
\* with the offset outside all these spans the message stays as it is.
C10_SpanEndsPastFinalBracket ==
    (EnhancedOnce /\ err.code = Some("parse-error")) =>
        LET regions == RegionsWithOffset
        IN  /\ CountOccurrences(FirstSuffix, <<"\n","-"," ">>) <= 2 * Len(regions)
            /\ regions = <<>> => messages[2] = messages[1]

\* an offset two past the final ">" of the only script region: no hint
C10_Witness ==
    /\ EnhancedOnce
    /\ err.code = Some("parse-error")
    /\ originalCode = <<"<","s","c","r","i","p","t",">","x","<","/","s","c","r","i","p","t",">">>
    /\ err.pos = Some(Len(originalCode) + 1)
    /\ preprocessors = [kind |-> "undefined"]
    /\ messages[2] = messages[1]

====
